---------------------------- MODULE Spec2Model ----------------------------
(***************************************************************************)
(* A model of backend/app.py of Respire: the air-quality lookup            *)
(* get_air_quality, the synthetic pollution model                          *)
(* estimate_pollution_by_location / is_ocean_area, the synthetic pollutant *)
(* breakdown, the heatmap endpoint get_heatmap_data with its anchors       *)
(* (get_limited_real_data) and its downsampling step, the profile store    *)
(* behind update_user_profile, get_forecast_data, and the process and      *)
(* threads that host them.                                                 *)
(*                                                                         *)
(* Coordinates are integers in micro-degrees (1 degree = 1000000), so the  *)
(* hotspot table is held exactly.  Real arithmetic of the source is        *)
(* computed exactly where the source's doubles hold it exactly; the        *)
(* downsampling loop, whose result depends on rounding, is computed in     *)
(* double precision.                                                       *)
(***************************************************************************)
EXTENDS Integers, Sequences, FiniteSets, TLC

VARIABLES
    token,        \* WAQI_API_TOKEN is configured (app.py:30)
    jsonErrIsRequestException,
                  \* the installed requests raises its own JSONDecodeError
                  \* (a RequestException) from resp.json(); older versions
                  \* raise a plain ValueError
    hashSeed,     \* the interpreter's per-process string-hash seed
    now,          \* wall-clock time of the environment
    nCalls,       \* get_air_quality calls made so far
    last,         \* the last get_air_quality call and what it returned
    stored,       \* per coordinate: the latest earlier successful fetch
    failRun,      \* consecutive failed remote calls before the last call
    failRunStart, \* when that run of failures began
    attemptsNow,  \* remote calls attempted at the current instant
    pc,           \* position of the estimation caller
    est,          \* the last estimate_pollution_by_location call
    prevEst,      \* an earlier estimate_pollution_by_location call
    mapsKey,      \* MAPS_API_KEY is configured (app.py:29)
    heat,         \* the last get_heatmap_data request and its response
    down,         \* the last run of the downsampling step on its own
    workers,      \* the request each thread of the server is handling
    user_profiles,
                  \* the in-memory profile store (app.py:47)
    profileCall,  \* the last profile update request and its response
    forecast,     \* the last get_forecast_data request and its response
    shape         \* the last grid laid over a viewport: steps and counts

vars == <<token, jsonErrIsRequestException, hashSeed, now, nCalls, last,
          stored, failRun, failRunStart, attemptsNow, pc, est, prevEst,
          mapsKey, heat, down, workers, user_profiles, profileCall,
          forecast, shape>>

\* the state of the heatmap endpoint
heatVars == <<mapsKey, heat, down>>

\* the state of the server's threads and of the other endpoints
webVars == <<workers, user_profiles, profileCall, forecast, shape>>

\* the part of it that get_air_quality's callers leave alone
otherVars == <<user_profiles, profileCall, forecast, shape>>

None == [none |-> TRUE]

Deg == 1000 * 1000

\* the threads of the server that handle requests
Workers == 1 .. 2

\* the users a bearer token can name (the "sub" claim)
Users == { "auth0|alice", "auth0|bob" }

\* no request in progress and user_profiles = {} (app.py:47); a user's
\* entry is None while the dict has no such key
InitWeb ==
    /\ workers = [w \in Workers |-> None]
    /\ user_profiles = [u \in Users |-> None]
    /\ profileCall = None
    /\ forecast = None
    /\ shape = None

Abs(x) == IF x < 0 THEN -x ELSE x
Max(a, b) == IF a >= b THEN a ELSE b
Min(a, b) == IF a <= b THEN a ELSE b

(***************************************************************************)
(* hash(str) of the interpreter.  String hashing is salted per process     *)
(* (PYTHONHASHSEED), so the value is a function of the process seed and    *)
(* the string.  The source only uses hash(s) % m for m in {3, 4, 8, 10,    *)
(* 20, 30, 40}; HashRange is a multiple of all of them, so every           *)
(* combination of residues one string can give is produced by some seed.   *)
(***************************************************************************)
HashRange == 120

Seeds == 0 .. (HashRange - 1)

\* the f-string hashed: which format ("plain" = f"{lat}{lng}",
\* "var" = f"{lat}_{lng}_var") and the two numbers formatted into it
StrCode(kind, a, b) ==
    (CASE kind = "plain" -> 1
       [] kind = "var"   -> 2
       [] OTHER          -> 3)
    + ((a + 90 * Deg) \div 1000) * 7 + ((b + 180 * Deg) \div 1000) * 13

pyhash(seed, kind, a, b) == (seed + StrCode(kind, a, b)) % HashRange

(***************************************************************************)
(* is_ocean_area(lat, lng)                                                 *)
(***************************************************************************)
is_ocean_area(lat, lng) ==
    \/ /\ (lng < -120 * Deg \/ lng > 150 * Deg)
       /\ ~(lat > 50 * Deg /\ lng > -130 * Deg /\ lng < -100 * Deg)
    \/ /\ lng > -60 * Deg /\ lng < 20 * Deg
       /\ (lat > 50 * Deg \/ lat < -20 * Deg)
    \/ /\ lng > 60 * Deg /\ lng < 120 * Deg
       /\ lat < -10 * Deg
    \/ lat > 70 * Deg
    \/ lat < -60 * Deg

(***************************************************************************)
(* pollution_hotspots: center (micro-degrees), radius (degrees), pollution *)
(***************************************************************************)
HS(la, ln, r, p) == [lat |-> la, lng |-> ln, radius |-> r, pollution |-> p]

pollution_hotspots == <<
    HS(39904200, 116407400, 15, 120), HS(31230400, 121473700, 15, 130),
    HS(23129100, 113264400, 12, 110), HS(30572800, 104066800, 12, 115),
    HS(22543100, 114057900, 12, 125),
    HS(28613900, 77209000, 10, 150),  HS(19076000, 72877700, 10, 140),
    HS(22572600, 88363900, 10, 145),  HS(13082700, 80270700, 10, 135),
    HS(12971600, 77594600, 10, 130),
    HS(29375900, 47977400, 8, 100),   HS(25276987, 55296249, 8, 95),
    HS(21422500, 39826200, 8, 90),    HS(31968600, 99901800, 8, 85),
    HS(26820600, 30802500, 8, 80),
    HS(51165700, 10451500, 12, 70),   HS(48856600, 2352200, 12, 65),
    HS(51507400, -127800, 12, 60),    HS(52379100, 4900900, 12, 55),
    HS(41902800, 12496400, 12, 50),
    HS(34052200, -118243700, 8, 80),  HS(40712800, -74006000, 8, 75),
    HS(41878100, -87629800, 8, 70),   HS(29760400, -95369800, 8, 65),
    HS(37774900, -122419400, 8, 60),
    HS(-23550500, -46633300, 8, 85),  HS(35676200, 139650300, 10, 75),
    HS(-33868800, 151209300, 8, 65),  HS(39904200, 32859700, 8, 60),
    HS(55755800, 37617300, 8, 55) >>

base_pollution == 20

(***************************************************************************)
(* distance = ((lat - center_lat) ** 2 + (lng - center_lng) ** 2) ** 0.5   *)
(* The squared distance, in units of 10^-12 square degrees, is held in     *)
(* base-10^4 limbs <<t2, l1, l0>> = t2 * 10^8 + l1 * 10^4 + l0 so that no  *)
(* intermediate value leaves 32 bits.  Only called with both coordinate    *)
(* differences below 15 degrees.                                           *)
(***************************************************************************)
Limb == 100 * 100

DistSq(dx, dy) ==
    LET x1 == dx \div Limb   x0 == dx % Limb
        y1 == dy \div Limb   y0 == dy % Limb
        c  == x0 * x0 + y0 * y0
        t1 == 2 * (x1 * x0 + y1 * y0) + (c \div Limb)
    IN  << x1 * x1 + y1 * y1 + (t1 \div Limb), t1 % Limb, c % Limb >>

\* distance < hotspot["radius"]
InRadius(lat, lng, h) ==
    LET dx == Abs(lat - h.lat)
        dy == Abs(lng - h.lng)
    IN  /\ dx < h.radius * Deg
        /\ dy < h.radius * Deg
        /\ DistSq(dx, dy)[1] < h.radius * h.radius * Limb

\* ceil(pollution * distance / radius), for a hotspot the point is within:
\* the least n with (n * radius)^2 >= pollution^2 * distance^2
ScaledDistCeil(lat, lng, h) ==
    LET d  == DistSq(Abs(lat - h.lat), Abs(lng - h.lng))
        pp == h.pollution * h.pollution
        c0 == pp * d[3]
        c1 == pp * d[2] + (c0 \div Limb)
        c2 == pp * (d[1] % Limb) + (c1 \div Limb)
        c3 == pp * (d[1] \div Limb) + (c2 \div Limb)
        up == IF c0 % Limb # 0 \/ c1 % Limb # 0 \/ c2 % Limb # 0 THEN 1 ELSE 0
        rr == h.radius * h.radius
    IN  CHOOSE n \in 0 .. h.pollution :
            /\ n * n * rr >= c3 + up
            /\ n = 0 \/ (n - 1) * (n - 1) * rr < c3 + up

\* floor(hotspot["pollution"] * influence), influence = 1 - distance / radius
Contribution(lat, lng, h) == h.pollution - ScaledDistCeil(lat, lng, h)

\* the loop adding up the contributions of the hotspots the point is within
RECURSIVE SumContribution(_, _, _)
SumContribution(lat, lng, i) ==
    IF i > Len(pollution_hotspots) THEN 0
    ELSE (IF InRadius(lat, lng, pollution_hotspots[i])
          THEN Contribution(lat, lng, pollution_hotspots[i])
          ELSE 0) + SumContribution(lat, lng, i + 1)

\* the loop over pollution_hotspots: floor(max_pollution - base_pollution)
RECURSIVE MaxContribution(_, _, _)
MaxContribution(lat, lng, i) ==
    IF i > Len(pollution_hotspots) THEN 0
    ELSE LET h    == pollution_hotspots[i]
             rest == MaxContribution(lat, lng, i + 1)
         IN  IF InRadius(lat, lng, h)
             THEN Max(Contribution(lat, lng, h), rest)
             ELSE rest

(***************************************************************************)
(* Coordinates the estimation model is exercised on: a lattice over the    *)
(* globe, and for every hotspot its center and points north of it at one   *)
(* micro-degree, half the radius, just inside the radius and on it.        *)
(***************************************************************************)
LatticeRows == 12
LatticeCols == 18

Lattice ==
    { << (-90 + (180 \div LatticeRows) * i) * Deg,
         (-180 + (360 \div LatticeCols) * j) * Deg >> :
        i \in 0 .. LatticeRows, j \in 0 .. LatticeCols }

NearHotspots ==
    UNION { { << h.lat + d, h.lng >> :
                d \in { 0, 1, (h.radius * Deg) \div 2,
                        h.radius * Deg - 1, h.radius * Deg } } :
            h \in { pollution_hotspots[i] :
                      i \in 1 .. Len(pollution_hotspots) } }

NYC == << 40712800, -74006000 >>
Origin == << 0, 0 >>
OceanPoint == << 10 * Deg, -150 * Deg >>
PolarPoint == << 66 * Deg, 30 * Deg >>

\* the edges of the polar band abs(lat) > 65 and of the Arctic rule lat > 70
BandEdges ==
    { << la, 30 * Deg >> :
        la \in { 65 * Deg, 65 * Deg + 1, 70 * Deg, 70 * Deg + 1 } }
      \cup { << 66 * Deg, -90 * Deg >>, << 68 * Deg, 100 * Deg >> }

ProbeCoords == { Origin, OceanPoint, PolarPoint }

EstCoords == Lattice \cup NearHotspots \cup BandEdges \cup ProbeCoords

ProviderCoords == { NYC, Origin }

\* the hotspot loop's result, computed once for the coordinates in use
HotspotFloorAt ==
    [c \in EstCoords \cup ProviderCoords |-> MaxContribution(c[1], c[2], 1)]

\* the land coordinates, in whole degrees, that the nodes of the global
\* heatmap grid (app.py:1695-1700) can be moved to
GlobalLand ==
    { c \in { << (-80 + 6 * r + j) * Deg, (-180 + 8 * k + l) * Deg >> :
                r \in 0 .. 26, j \in -1 .. 1, k \in 0 .. 45, l \in -2 .. 1 } :
        ~is_ocean_area(c[1], c[2]) /\ Abs(c[1]) <= 65 * Deg }

\* the hotspot loop's result for them, computed once
GlobalFloorAt == [c \in GlobalLand |-> MaxContribution(c[1], c[2], 1)]

HotspotFloor(lat, lng) ==
    IF << lat, lng >> \in DOMAIN HotspotFloorAt
    THEN HotspotFloorAt[<< lat, lng >>]
    ELSE IF lat % Deg = 0 /\ lng % Deg = 0
            /\ << lat, lng >> \in DOMAIN GlobalFloorAt
    THEN GlobalFloorAt[<< lat, lng >>]
    ELSE MaxContribution(lat, lng, 1)

(***************************************************************************)
(* estimate_pollution_by_location(lat, lng), in a process whose hash seed  *)
(* is seed.  int(max_pollution + variation) truncates a positive real, so  *)
(* it is base_pollution + variation + floor(largest contribution).         *)
(***************************************************************************)
\* return 15 + (hash(f"{lat}{lng}") % 10)
OceanValue(seed, lat, lng) == 15 + (pyhash(seed, "plain", lat, lng) % 10)

\* a sign slip in the polar jitter
PolarValueSignSlip(seed, lat, lng) ==
    10 - (pyhash(seed, "plain", lat, lng) % 8)

\* return 10 + (hash(f"{lat}{lng}") % 8)
PolarValue(seed, lat, lng) == 10 + (pyhash(seed, "plain", lat, lng) % 8)

\* the hotspot loop placed before the ocean and polar checks
estimate_hotspots_first(seed, lat, lng) ==
    IF HotspotFloor(lat, lng) > 0
    THEN Max(5, Min(200, base_pollution + HotspotFloor(lat, lng)
                         + (pyhash(seed, "var", lat, lng) % 20) - 10))
    ELSE IF is_ocean_area(lat, lng)
    THEN OceanValue(seed, lat, lng)
    ELSE IF Abs(lat) > 65 * Deg
    THEN PolarValue(seed, lat, lng)
    ELSE Max(5, Min(200, base_pollution
                         + (pyhash(seed, "var", lat, lng) % 20) - 10))

estimate_pollution_by_location(seed, lat, lng) ==
    IF is_ocean_area(lat, lng)
    THEN OceanValue(seed, lat, lng)
    ELSE IF Abs(lat) > 65 * Deg
    THEN PolarValue(seed, lat, lng)
    ELSE LET variation == (pyhash(seed, "var", lat, lng) % 20) - 10
         IN  Max(5, Min(200, base_pollution + HotspotFloor(lat, lng)
                             + variation))

(***************************************************************************)
(* The remote provider (WAQI) as get_air_quality sees it: what             *)
(* requests.get(url, timeout=8) and the decoding of its body come to.      *)
(*   Ok              status "ok", data an object of the documented shape   *)
(*   Timeout         requests.get raises Timeout                           *)
(*   ConnectionError requests.get raises ConnectionError                   *)
(*   HttpError       raise_for_status() raises HTTPError (4xx / 5xx)       *)
(*   NotJson         the body is not JSON: resp.json() raises              *)
(*   JsonNotObject   the body is JSON but no object (a list, a string,     *)
(*                   null): data.get raises AttributeError                 *)
(*   NoData          an object whose status is not "ok", or whose data is  *)
(*                   no object                                             *)
(*   OkBadShape      status "ok" and data an object, but iaqi is no object *)
(*                   (or city is a string): .items() / .get raises         *)
(*                   AttributeError                                        *)
(***************************************************************************)
ErrorKinds ==
    { "Timeout", "ConnectionError", "HttpError", "NotJson", "JsonNotObject",
      "NoData", "OkBadShape" }

RemoteAqis == { 42, 87 }

RemoteResponses ==
    { [kind |-> "Ok", aqi |-> a] : a \in RemoteAqis }
      \cup { [kind |-> k, aqi |-> 0] : k \in ErrorKinds }

\* the exception leaves the try block through
\* "except requests.exceptions.RequestException"
CaughtByHandler(kind) ==
    \/ kind \in { "Timeout", "ConnectionError", "HttpError" }
    \/ kind = "NotJson" /\ jsonErrIsRequestException

\* the else branch of the status check: "WAQI returned no data", no exception
FallsThrough(kind) == kind = "NoData"

(***************************************************************************)
(* generate_estimated_pollutants(base_aqi, lat, lng) and                   *)
(* get_dominant_pollutant(pollutants).  base_ratio is held in hundredths.  *)
(***************************************************************************)
PI(code, ratio) == [code |-> code, base_ratio |-> ratio]

\* the dict pollutant_info, in insertion order (the order of iteration)
pollutant_info ==
    << PI("pm25", 40), PI("pm10", 60), PI("o3", 30), PI("no2", 25),
       PI("so2", 15), PI("co", 10) >>

\* hash(f"{lat}_{lng}_{code}") ("conc") and hash(f"{code}_{lat}") ("aqi") for
\* the n-th code: as pyhash, a function of the process seed and the string
\* that takes every residue as the seed varies
HashStride == << 1, 7, 13, 17, 19, 23 >>
pyhash_code(seed, kind, n, a, b) ==
    (seed * HashStride[n] + StrCode(kind, a, b)
       + (IF kind = "conc" THEN n ELSE 7 * n)) % HashRange

\* base_aqi * base_ratio * (1 + variation / 100) is computed in doubles and
\* then truncated by int(): for base_aqi in 0 .. 200 the double product
\* equals a whole number exactly when the real product does, but for the
\* three products below, which it leaves just under the whole number
\* (125 * 0.4 * 1.16 = 57.99999999999999)
RoundsBelow(code, base_aqi, variation) ==
    /\ variation = 16
    /\ << code, base_aqi >> \in
           { << "pm25", 125 >>, << "no2", 100 >>, << "no2", 200 >> }

\* concentration = max(1, int(base_aqi * info['base_ratio']
\*                            * (1 + variation / 100)))
Concentration(info, base_aqi, variation) ==
    Max(1, (base_aqi * info.base_ratio * (100 + variation)) \div 10000
           - (IF RoundsBelow(info.code, base_aqi, variation) THEN 1 ELSE 0))

\* pollutant_aqi = min(500, max(0, int(concentration * 0.8
\*                                     + (hash(f"{code}_{lat}") % 20) - 10)))
\* (concentration * 0.8 + k truncates to the same integer in doubles as in
\* the reals wherever the result is not negative, and max(0, .) hides the
\* direction of the truncation below 0)
PollutantAqi(concentration, h) ==
    Min(500, Max(0, (4 * concentration) \div 5 + (h % 20) - 10))

Pollutant(seed, n, base_aqi, lat, lng) ==
    [code |-> pollutant_info[n].code,
     concentration |->
         Concentration(pollutant_info[n], base_aqi,
                       (pyhash_code(seed, "conc", n, lat, lng) % 40) - 20),
     aqi |->
         PollutantAqi(
             Concentration(pollutant_info[n], base_aqi,
                           (pyhash_code(seed, "conc", n, lat, lng) % 40)
                              - 20),
             pyhash_code(seed, "aqi", n, lat, 0))]

generate_estimated_pollutants(seed, base_aqi, lat, lng) ==
    [n \in 1 .. Len(pollutant_info) |->
         Pollutant(seed, n, base_aqi, lat, lng)]

\* max(pollutants, key=...) walks the list and keeps the element it holds
\* unless the next one is greater
RECURSIVE MaxByAqi(_, _, _)
MaxByAqi(pollutants, n, best) ==
    IF n > Len(pollutants) THEN best
    ELSE MaxByAqi(pollutants, n + 1,
                  IF pollutants[n].aqi > pollutants[best].aqi THEN n
                  ELSE best)

\* the walk keeping the later of two equal elements
get_dominant_pollutant_last(pollutants) ==
    IF pollutants = << >> THEN None
    ELSE pollutants[CHOOSE n \in 1 .. Len(pollutants) :
                        /\ \A m \in 1 .. Len(pollutants) :
                               pollutants[m].aqi <= pollutants[n].aqi
                        /\ \A m \in (n + 1) .. Len(pollutants) :
                               pollutants[m].aqi < pollutants[n].aqi].code

get_dominant_pollutant(pollutants) ==
    IF pollutants = << >> THEN None
    ELSE pollutants[MaxByAqi(pollutants, 2, 1)].code

\* the unified sample built from the estimate and its breakdown
Unified(estimated_aqi, estimated_pollutants) ==
    [provider |-> "estimate",
     aqi |-> estimated_aqi,
     dominant_pollutant |-> get_dominant_pollutant(estimated_pollutants),
     pollutants |-> estimated_pollutants]

\* the sample for the estimate estimated_aqi in a process whose hash seed
\* is seed
Breakdown(seed, estimated_aqi, lat, lng) ==
    Unified(estimated_aqi,
            generate_estimated_pollutants(seed, estimated_aqi, lat, lng))

\* the fallback sample, computed once for the coordinates the callers of
\* get_air_quality use
FallbackAt ==
    [seed \in Seeds |->
        [c \in ProviderCoords |->
            Breakdown(seed, estimate_pollution_by_location(seed, c[1], c[2]),
                      c[1], c[2])]]

\* the fallback: estimate_pollution_by_location, the synthetic breakdown
\* and provider "estimate"
EstimateSample(lat, lng) ==
    IF hashSeed \in Seeds /\ << lat, lng >> \in ProviderCoords
    THEN FallbackAt[hashSeed][<< lat, lng >>]
    ELSE Breakdown(hashSeed,
                   estimate_pollution_by_location(hashSeed, lat, lng),
                   lat, lng)

FailedRemote(c) == c # None /\ c.attempted /\ c.kind # "Ok"
SucceededRemote(c) == c # None /\ c.attempted /\ c.kind = "Ok"

\* get_air_quality behind a cache whose entries never expire: a sample once
\* fetched for a coordinate is served for ever
get_air_quality_never_expiring(lat, lng, resp) ==
    IF SucceededRemote(last) /\ last.lat = lat /\ last.lng = lng
    THEN [attempted |-> FALSE, raised |-> FALSE, sample |-> last.sample]
    ELSE IF stored[<< lat, lng >>] # None
    THEN [attempted |-> FALSE, raised |-> FALSE,
          sample |-> stored[<< lat, lng >>].sample]
    ELSE IF ~token
    THEN [attempted |-> FALSE, raised |-> FALSE,
          sample |-> EstimateSample(lat, lng)]
    ELSE IF resp.kind = "Ok"
    THEN [attempted |-> TRUE, raised |-> FALSE,
          sample |-> [provider |-> "waqi", aqi |-> resp.aqi]]
    ELSE IF FallsThrough(resp.kind) \/ CaughtByHandler(resp.kind)
    THEN [attempted |-> TRUE, raised |-> FALSE,
          sample |-> EstimateSample(lat, lng)]
    ELSE [attempted |-> TRUE, raised |-> TRUE, sample |-> None]

(***************************************************************************)
(* get_air_quality(lat, lng) when the remote provider answers resp:        *)
(* whether a remote call was made, whether an exception left the function  *)
(* (one the handler does not name: the AttributeError of a body of the     *)
(* wrong shape, the ValueError of a body that is not JSON), and the sample *)
(* returned.                                                               *)
(***************************************************************************)
get_air_quality(lat, lng, resp) ==
    IF ~token
    THEN [attempted |-> FALSE, raised |-> FALSE,
          sample |-> EstimateSample(lat, lng)]
    ELSE IF resp.kind = "Ok"
    THEN [attempted |-> TRUE, raised |-> FALSE,
          sample |-> [provider |-> "waqi", aqi |-> resp.aqi]]
    ELSE IF FallsThrough(resp.kind) \/ CaughtByHandler(resp.kind)
    THEN [attempted |-> TRUE, raised |-> FALSE,
          sample |-> EstimateSample(lat, lng)]
    ELSE [attempted |-> TRUE, raised |-> TRUE, sample |-> None]

(***************************************************************************)
(* The callers of get_air_quality and the clock.                           *)
(***************************************************************************)
MaxCalls == 3
MaxTime == 2

\* One call of get_air_quality, with the answer the provider gives to it.
\* last, stored, failRun, failRunStart and attemptsNow record the history of
\* calls; the function itself keeps no state between calls.
GetAirQuality(c, resp) ==
    /\ nCalls < MaxCalls
    /\ token \/ resp.kind = "NoData"
    /\ LET r == get_air_quality(c[1], c[2], resp)
       IN  /\ last' = [lat |-> c[1], lng |-> c[2], at |-> now,
                       kind |-> IF r.attempted THEN resp.kind ELSE "NotCalled",
                       attempted |-> r.attempted, raised |-> r.raised,
                       sample |-> r.sample]
           /\ attemptsNow' = attemptsNow + (IF r.attempted THEN 1 ELSE 0)
    /\ stored' = IF SucceededRemote(last)
                 THEN [stored EXCEPT ![<< last.lat, last.lng >>] =
                           [at |-> last.at, sample |-> last.sample]]
                 ELSE stored
    /\ failRun' = IF FailedRemote(last) THEN failRun + 1
                  ELSE IF SucceededRemote(last) THEN 0
                  ELSE failRun
    /\ failRunStart' = IF FailedRemote(last) /\ failRun = 0 THEN last.at
                       ELSE failRunStart
    /\ nCalls' = nCalls + 1
    /\ UNCHANGED << heatVars, webVars, token, jsonErrIsRequestException, hashSeed, now, pc, est,
                    prevEst >>

\* time passes
Tick ==
    /\ now < MaxTime
    /\ now' = now + 1
    /\ attemptsNow' = 0
    /\ UNCHANGED << heatVars, webVars, token, jsonErrIsRequestException, hashSeed, nCalls, last,
                    stored, failRun, failRunStart, pc, est, prevEst >>

\* the process as started: the environment decides the configuration
Init ==
    /\ token \in BOOLEAN
    /\ jsonErrIsRequestException \in BOOLEAN
    /\ hashSeed \in { 0, HashRange - 1 }
    /\ now = 0
    /\ nCalls = 0
    /\ last = None
    /\ stored = [c \in ProviderCoords |-> None]
    /\ failRun = 0
    /\ failRunStart = 0
    /\ attemptsNow = 0
    /\ pc = "idle"
    /\ est = None
    /\ prevEst = None
    /\ mapsKey = TRUE
    /\ heat = None
    /\ down = None
    /\ InitWeb

Next ==
    \/ \E c \in ProviderCoords, resp \in RemoteResponses :
          GetAirQuality(c, resp)
    \/ Tick

Spec == Init /\ [][Next]_vars

(***************************************************************************)
(* The estimation model on its own: a caller that invokes                  *)
(* estimate_pollution_by_location on one coordinate after another.         *)
(***************************************************************************)
EstimateCall(c) ==
    /\ pc = "idle"
    /\ est' = [lat |-> c[1], lng |-> c[2],
               aqi |-> estimate_pollution_by_location(hashSeed, c[1], c[2])]
    /\ pc' = "done"
    /\ UNCHANGED << heatVars, webVars, token, jsonErrIsRequestException, hashSeed, now, nCalls,
                    last, stored, failRun, failRunStart, attemptsNow,
                    prevEst >>

\* the caller takes the value and is ready for the next call
EstimateReturn ==
    /\ pc = "done"
    /\ pc' = "idle"
    /\ est' = None
    /\ UNCHANGED << heatVars, webVars, token, jsonErrIsRequestException, hashSeed, now, nCalls,
                    last, stored, failRun, failRunStart, attemptsNow,
                    prevEst >>

InitEst ==
    /\ token = FALSE
    /\ jsonErrIsRequestException = TRUE
    /\ hashSeed \in Seeds
    /\ now = 0
    /\ nCalls = 0
    /\ last = None
    /\ stored = [c \in ProviderCoords |-> None]
    /\ failRun = 0
    /\ failRunStart = 0
    /\ attemptsNow = 0
    /\ pc = "idle"
    /\ est = None
    /\ prevEst = None
    /\ mapsKey = TRUE
    /\ heat = None
    /\ down = None
    /\ InitWeb

NextEst ==
    \/ \E c \in EstCoords : EstimateCall(c)
    \/ EstimateReturn

SpecEst == InitEst /\ [][NextEst]_vars

(***************************************************************************)
(* The estimation model across the life of the server: a client that       *)
(* remembers the value it was given, and the server process being          *)
(* restarted (app.run(debug=True) reloads the process; every start of the  *)
(* interpreter draws a new string-hash seed).                              *)
(***************************************************************************)
\* the client keeps the value returned to it
EstimateRemember ==
    /\ pc = "done"
    /\ pc' = "idle"
    /\ prevEst' = est
    /\ est' = None
    /\ UNCHANGED << heatVars, webVars, token, jsonErrIsRequestException, hashSeed, now, nCalls,
                    last, stored, failRun, failRunStart, attemptsNow >>

\* the server process is started again
Restart ==
    /\ pc = "idle"
    /\ hashSeed' \in Seeds
    /\ UNCHANGED << heatVars, webVars, token, jsonErrIsRequestException, now, nCalls, last,
                    stored, failRun, failRunStart, attemptsNow, pc, est,
                    prevEst >>

NextProc ==
    \/ \E c \in ProbeCoords : EstimateCall(c)
    \/ EstimateRemember
    \/ Restart

SpecProc == InitEst /\ [][NextProc]_vars

(***************************************************************************)
(* Properties of get_air_quality (checked under Spec).                     *)
(***************************************************************************)
LastKey == << last.lat, last.lng >>

\* the last call came after an earlier successful fetch at its coordinates
AfterSuccess == last # None /\ stored[LastKey] # None

\* C1: get_air_quality is total: whatever the remote call comes to, the call
\* returns a sample and no exception leaves it; unless the remote call was a
\* well-formed success, the sample's provider is "estimate".
C1_Total ==
    last # None =>
        /\ ~last.raised
        /\ last.sample # None
        /\ last.kind # "Ok" => last.sample.provider = "estimate"

\* C2: cache hit: a call made at the coordinates of an earlier successful
\* fetch, no time having passed since (so inside any TTL window), makes no
\* remote call and returns the sample of that fetch.
C2_CacheHit ==
    (AfterSuccess /\ last.at = stored[LastKey].at) =>
        /\ ~last.attempted
        /\ last.sample = stored[LastKey].sample

Thresholds == 1 .. (MaxCalls - 1)

\* C4: breaker opening: for some threshold, a call that follows at least
\* threshold consecutive failed remote calls, no time having passed since
\* the first of them (so less than any cooldown since the breaker opened),
\* makes no remote call and returns a sample with provider "estimate".
C4_BreakerOpens ==
    \E threshold \in Thresholds :
        (last # None /\ failRun >= threshold /\ last.at = failRunStart) =>
            /\ ~last.attempted
            /\ ~last.raised
            /\ last.sample.provider = "estimate"

\* C6: rate limiting: for some maxPerMinute, no more than maxPerMinute
\* remote calls are attempted at one instant (which lies in one trailing
\* 60-second window).
C6_RateLimit ==
    \E maxPerMinute \in Thresholds : attemptsNow <= maxPerMinute

\* C7: each of the four remote error kinds (Timeout; TransportFailure;
\* MalformedResponse: a wrong status or a wrong shape; NoDataForLocation)
\* ends in the estimation fallback and none is propagated to the caller.
C7_ErrorsAlike ==
    \A kind \in ErrorKinds :
        (last # None /\ last.attempted /\ last.kind = kind) =>
            /\ last.raised = FALSE
            /\ last.sample = EstimateSample(last.lat, last.lng)

(***************************************************************************)
(* Properties of estimate_pollution_by_location.                           *)
(***************************************************************************)
\* C9 (checked under SpecProc): two calls of estimate_pollution_by_location
\* with identical (lat, lng) return identical values.
C9_Deterministic ==
    (est # None /\ prevEst # None
        /\ est.lat = prevEst.lat /\ est.lng = prevEst.lng) =>
        est.aqi = prevEst.aqi

\* C10 (checked under SpecEst): for every coordinate pair, ocean, polar or
\* land, inside or outside any hotspot, the value returned is an integer in
\* [5, 200].
C10_Bounded == est # None => est.aqi \in 5 .. 200

\* C10, its case: the largest values arise at the center of the strongest
\* hotspot (Delhi, pollution 150) with the largest jitter.
C10_Witness ==
    /\ est # None
    /\ est.lat = 28613900 /\ est.lng = 77209000
    /\ est.aqi = 179


\* the point due north of a hotspot's center at exactly its radius: the
\* nearest point on that line at which the source's test distance < radius
\* fails, so the hotspot contributes nothing there
JustOutside(h) == << h.lat + h.radius * Deg, h.lng >>

\* no hotspot of the table reaches the coordinate
UnderNoHotspot(c) ==
    \A i \in 1 .. Len(pollution_hotspots) :
        ~InRadius(c[1], c[2], pollution_hotspots[i])

\* C11 (checked under SpecEst): hotspot influence: for every hotspot of the
\* table, the value at the hotspot's center is strictly greater than the
\* value at a point just outside its radius that no other hotspot reaches,
\* for every value the jitter can take (the two coordinates hash different
\* strings, so every residue at the center meets every residue outside).
C11_HotspotInfluence ==
    \A i \in 1 .. Len(pollution_hotspots) :
        LET h == pollution_hotspots[i]
            out == JustOutside(h)
        IN  (est # None /\ est.lat = h.lat /\ est.lng = h.lng
                /\ UnderNoHotspot(out)) =>
                \A s \in Seeds :
                    est.aqi > estimate_pollution_by_location(s, out[1], out[2])

(***************************************************************************)
(* The double-precision arithmetic of the downsampling loop                *)
(* (app.py:1716-1720).  A non-negative double below 2^13 is held exactly   *)
(* as five limbs of 13 bits, << whole, f1, f2, f3, f4 >>, standing for     *)
(* whole + (f1 * FB^3 + f2 * FB^2 + f3 * FB + f4) / 2^52.  Division and    *)
(* addition round to 53 significant bits, ties to even, as IEEE 754 does.  *)
(***************************************************************************)
FB == 2 ^ 13

FloatZero == << 0, 0, 0, 0, 0 >>

\* the spacing of doubles around a value with this whole part, in units of
\* 2^-52 (values below 1 that are multiples of 2^-52 are all doubles)
Ulp(whole) ==
    IF whole = 0 THEN 1
    ELSE CHOOSE u \in { 2 ^ b : b \in 0 .. 12 } : u <= whole /\ whole < 2 * u

\* bring every limb below FB, carrying upwards
Carry(x) ==
    LET c5 == x[5] \div FB
        c4 == (x[4] + c5) \div FB
        c3 == (x[3] + c4) \div FB
        c2 == (x[2] + c3) \div FB
    IN  << x[1] + c2, (x[2] + c3) % FB, (x[3] + c4) % FB, (x[4] + c5) % FB,
           x[5] % FB >>

\* round the exact value x + (rnum / rden) * 2^-52 to the nearest double
RoundToDouble(x, rnum, rden) ==
    LET u    == Ulp(x[1])
        low  == x[5] % u
        base == x[5] - low
        twice == 2 * (low * rden + rnum)
        up   == \/ twice > u * rden
                \/ twice = u * rden /\ (base \div u) % 2 = 1
    IN  Carry(<< x[1], x[2], x[3], x[4], base + (IF up THEN u ELSE 0) >>)

\* float(n) / float(k) for integers n >= 0, k >= 1
FloatDiv(n, k) ==
    LET r0 == n % k
        r1 == (r0 * FB) % k
        r2 == (r1 * FB) % k
        r3 == (r2 * FB) % k
        r4 == (r3 * FB) % k
    IN  RoundToDouble(<< n \div k, (r0 * FB) \div k, (r1 * FB) \div k,
                         (r2 * FB) \div k, (r3 * FB) \div k >>, r4, k)

\* x + y
FloatAdd(x, y) ==
    RoundToDouble(Carry([n \in 1 .. 5 |-> x[n] + y[n]]), 0, 1)

\* x rounded up to a whole number
FloatCeil(x) ==
    IF x[2] = 0 /\ x[3] = 0 /\ x[4] = 0 /\ x[5] = 0 THEN x[1] ELSE x[1] + 1

\* int(x)
FloatToInt(x) == x[1]

(***************************************************************************)
(* The downsampling step of get_heatmap_data (app.py:1712-1721).           *)
(***************************************************************************)
\* the loop bounded by the end of the list alone
RECURSIVE SampleLoopToEnd(_, _, _, _, _)
SampleLoopToEnd(heatmap_points, max_points, step, i, sampled) ==
    IF FloatToInt(i) < Len(heatmap_points)
    THEN SampleLoopToEnd(heatmap_points, max_points, step, FloatAdd(i, step),
                         Append(sampled, heatmap_points[FloatToInt(i) + 1]))
    ELSE sampled

RECURSIVE SampleLoop(_, _, _, _, _)
\* while len(sampled) < max_points and int(i) < total: ...; i += step
SampleLoop(heatmap_points, max_points, step, i, sampled) ==
    IF Len(sampled) < max_points /\ FloatToInt(i) < Len(heatmap_points)
    THEN SampleLoop(heatmap_points, max_points, step, FloatAdd(i, step),
                    Append(sampled, heatmap_points[FloatToInt(i) + 1]))
    ELSE sampled

\* the step taken as the whole number total // max_points and the loop
\* bounded by the end of the list alone
DownsampleWholeStride(heatmap_points, max_points) ==
    LET total == Len(heatmap_points)
    IN  IF total <= max_points \/ max_points <= 0
        THEN [raised |-> FALSE, points |-> heatmap_points]
        ELSE [raised |-> FALSE,
              points |-> SampleLoop(heatmap_points, total,
                                    FloatDiv(total \div max_points, 1),
                                    FloatZero, << >>)]

\* the list returned for heatmap_points and max_points; raised when the
\* division float(total) / float(max_points) is a division by zero.  With a
\* negative max_points the loop's first test fails and the list is empty.
Downsample(heatmap_points, max_points) ==
    LET total == Len(heatmap_points)
    IN  IF total <= max_points
        THEN [raised |-> FALSE, points |-> heatmap_points]
        ELSE IF max_points = 0
        THEN [raised |-> TRUE, points |-> << >>]
        ELSE IF max_points < 0
        THEN [raised |-> FALSE, points |-> << >>]
        ELSE [raised |-> FALSE,
              points |-> SampleLoop(heatmap_points, max_points,
                                    FloatDiv(total, max_points),
                                    FloatZero, << >>)]

(***************************************************************************)
(* get_limited_real_data (app.py:1831-1865): the anchor points.            *)
(***************************************************************************)
key_locations ==
    << << 40712800, -74006000 >>,     \* NYC
       << 34052200, -118243700 >>,    \* LA
       << 51507400, -127800 >>,       \* London
       << 48856600, 2352200 >>,       \* Paris
       << 35676200, 139650300 >> >>   \* Tokyo

\* the anchor marked as an estimate
RealPointEstimated(location, aqi) ==
    [lat |-> location[1], lng |-> location[2], aqi |-> aqi, weight |-> aqi,
     estimated |-> TRUE]

RealPoint(location, aqi) ==
    [lat |-> location[1], lng |-> location[2], aqi |-> aqi, weight |-> aqi,
     estimated |-> FALSE]

\* the body of the loop for one location: an exception out of
\* get_air_quality is swallowed (except: pass) and the location skipped, as
\* is a sample whose aqi is not a positive number
RealPointsAt(location, aqi_data) ==
    IF ~aqi_data.raised /\ aqi_data.sample.aqi > 0
    THEN << RealPoint(location, aqi_data.sample.aqi) >>
    ELSE << >>

RECURSIVE RealPointsFrom(_, _)
\* the loop over key_locations from the n-th on; answers[n] is what the
\* remote provider does on the n-th lookup
RealPointsFrom(n, answers) ==
    IF n > Len(key_locations) THEN << >>
    ELSE RealPointsAt(key_locations[n],
                      get_air_quality(key_locations[n][1],
                                      key_locations[n][2], answers[n]))
           \o RealPointsFrom(n + 1, answers)

\* the locations looked up when the exception of a lookup ends the loop
RECURSIVE LookupsUntilRaise(_, _)
LookupsUntilRaise(n, answers) ==
    IF n > Len(key_locations) THEN << >>
    ELSE IF get_air_quality(key_locations[n][1], key_locations[n][2],
                            answers[n]).raised
    THEN << key_locations[n] >>
    ELSE << key_locations[n] >> \o LookupsUntilRaise(n + 1, answers)

\* the locations get_air_quality is called with, in order, by the loop from
\* the n-th key location on: one call in every run of the body, whatever
\* the calls before came to
RECURSIVE LookupsFrom(_, _)
LookupsFrom(n, answers) ==
    IF n > Len(key_locations) THEN << >>
    ELSE << key_locations[n] >> \o LookupsFrom(n + 1, answers)

\* the loop without its try / except: an exception out of a lookup leaves
\* the function
get_limited_real_data_unguarded(answers) ==
    [raised |-> \E n \in 1 .. Len(key_locations) :
                    get_air_quality(key_locations[n][1], key_locations[n][2],
                                    answers[n]).raised,
     points |-> RealPointsFrom(1, answers),
     lookups |-> LookupsFrom(1, answers)]

\* no exception leaves the function: each lookup sits in its own
\* try / except: pass
get_limited_real_data(answers) ==
    [raised |-> FALSE, points |-> RealPointsFrom(1, answers),
     lookups |-> LookupsFrom(1, answers)]

(***************************************************************************)
(* get_heatmap_data (app.py:1575-1724): the grid.                          *)
(***************************************************************************)
\* the upper limit left out
ClampLatBelowOnly(x) == Max(-85 * Deg, x)

\* max(-85, min(85, .))
ClampLat(x) == Max(-85 * Deg, Min(85 * Deg, x))

\* max(-180, min(180, .))
ClampLng(x) == Max(-180 * Deg, Min(180 * Deg, x))

\* half a turn taken for a full one
WrapLngHalfTurn(x) ==
    LET a == IF x > 180 * Deg THEN x - 180 * Deg ELSE x
    IN  IF a < -180 * Deg THEN a + 180 * Deg ELSE a

\* if actual_lng > 180: actual_lng -= 360; if actual_lng < -180: += 360
WrapLng(x) ==
    LET a == IF x > 180 * Deg THEN x - 360 * Deg ELSE x
    IN  IF a < -180 * Deg THEN a + 360 * Deg ELSE a

\* hash(f"{lat}_{lng}") % 3 - 1 and hash(f"{lng}_{lat}") % 4 - 2, in degrees
LatJitter(seed, lat, lng) == ((pyhash(seed, "pair", lat, lng) % 3) - 1) * Deg
LngJitter(seed, lat, lng) == ((pyhash(seed, "pair", lng, lat) % 4) - 2) * Deg

GridPoint(seed, actual_lat, actual_lng) ==
    LET estimated_aqi ==
            estimate_pollution_by_location(seed, actual_lat, actual_lng)
    IN  [lat |-> actual_lat, lng |-> actual_lng, aqi |-> estimated_aqi,
         weight |-> estimated_aqi, estimated |-> TRUE]

\* a node of the bounded grid, viewport not crossing the antimeridian
\* (app.py:1626-1640)
BoundedNode(seed, lat, lng) ==
    GridPoint(seed, ClampLat(lat + LatJitter(seed, lat, lng)),
              WrapLng(lng + LngJitter(seed, lat, lng)))

\* the longitude taken from the latitude variable
CrossingNodeMixedUp(seed, lat, lng) ==
    GridPoint(seed, ClampLat(lat + LatJitter(seed, lat, lng)),
              lat + LngJitter(seed, lat, lng))

\* a node of the bounded grid, viewport crossing the antimeridian
\* (app.py:1646-1655 and 1659-1668)
CrossingNode(seed, lat, lng) ==
    GridPoint(seed, ClampLat(lat + LatJitter(seed, lat, lng)),
              lng + LngJitter(seed, lat, lng))

\* a node of the global grid (app.py:1697-1708)
GlobalNode(seed, lat, lng) ==
    GridPoint(seed, ClampLat(lat + LatJitter(seed, lat, lng)),
              ClampLng(lng + LngJitter(seed, lat, lng)))

\* max(0.25, min(8.0, span / target_cells if span > 0 else 1.0))
target_cells == 30

\* the steps for twice the number of cells
GridStepFine(span) ==
    Max(Deg \div 4, Min(8 * Deg, IF span > 0
                                 THEN span \div (2 * target_cells)
                                 ELSE Deg))

GridStep(span) ==
    Max(Deg \div 4, Min(8 * Deg, IF span > 0 THEN span \div target_cells
                                 ELSE Deg))

\* the viewport of a request body with sw and ne (app.py:1597-1612)
Viewport(sw, ne) ==
    LET lng_min == sw[2]
        lng_max == ne[2]
        crosses_antimeridian == ~(lng_min <= lng_max)
    IN  [lat_min |-> Min(sw[1], ne[1]), lat_max |-> Max(sw[1], ne[1]),
         lng_min |-> lng_min, lng_max |-> lng_max,
         crosses_antimeridian |-> crosses_antimeridian,
         lng_span |-> IF crosses_antimeridian
                      THEN (180 * Deg - lng_min) + (lng_max + 180 * Deg)
                      ELSE lng_max - lng_min]

\* how often the body of  x = lo; while x <= hi: ...; x += step  runs
Steps(lo, hi, step) == IF lo > hi THEN 0 ELSE (hi - lo) \div step + 1

\* lat_step and lng_step (app.py:1616-1617)
LatStep(v) == GridStep(v.lat_max - v.lat_min)
LngStep(v) == GridStep(v.lng_span)

\* how often the outer loop runs, and the inner loops in each run of it:
\* the range lng_min..180 (East) and then -180..lng_max when the viewport
\* crosses the antimeridian
Rows(v) == Steps(v.lat_min, v.lat_max, LatStep(v))
East(v) == Steps(v.lng_min, 180 * Deg, LngStep(v))
Width(v) ==
    IF v.crosses_antimeridian
    THEN East(v) + Steps(-180 * Deg, v.lng_max, LngStep(v))
    ELSE Steps(v.lng_min, v.lng_max, LngStep(v))

\* the n-th node of the grid, in row r and at place c of the row
BoundedAt(seed, v, r, c) ==
    IF ~v.crosses_antimeridian
    THEN BoundedNode(seed, v.lat_min + r * LatStep(v),
                     v.lng_min + c * LngStep(v))
    ELSE IF c < East(v)
    THEN CrossingNode(seed, v.lat_min + r * LatStep(v),
                      v.lng_min + c * LngStep(v))
    ELSE CrossingNode(seed, v.lat_min + r * LatStep(v),
                      -180 * Deg + (c - East(v)) * LngStep(v))

\* the grid within the viewport, row by row (app.py:1620-1671)
BoundedGrid(seed, v) ==
    [n \in 1 .. Rows(v) * Width(v) |->
        BoundedAt(seed, v, (n - 1) \div Width(v), (n - 1) % Width(v))]

\* len(range(lo, hi, step)) for a positive step
RangeLen(lo, hi, step) == IF lo >= hi THEN 0 ELSE (hi - 1 - lo) \div step + 1

\* the global grid: for lat in range(-80, 81, 6): for lng in
\* range(-180, 181, 8) (app.py:1693-1708); GlobalLat(n) and GlobalLng(n)
\* are lat and lng in the n-th run of the inner loop's body
GlobalRows == RangeLen(-80, 81, 6)
GlobalCols == RangeLen(-180, 181, 8)
GlobalLat(n) == (-80 + 6 * ((n - 1) \div GlobalCols)) * Deg
GlobalLng(n) == (-180 + 8 * ((n - 1) % GlobalCols)) * Deg

GlobalGrid(seed) ==
    [n \in 1 .. GlobalRows * GlobalCols |->
        GlobalNode(seed, GlobalLat(n), GlobalLng(n))]

\* the estimation hash seeds the heatmap runs draw from: enough for every
\* pair of a latitude and a longitude jitter to occur at every node
SeedSample == 12
HeatSeeds == 0 .. (SeedSample - 1)

\* the global grid, computed once per seed
GlobalGridAt == [seed \in HeatSeeds |-> GlobalGrid(seed)]

\* the filter left out
in_bounds_anywhere(p, v) == TRUE

\* in_bounds (app.py:1679-1686)
in_bounds(p, v) ==
    IF v.lat_min <= p.lat /\ p.lat <= v.lat_max
    THEN IF ~v.crosses_antimeridian
         THEN v.lng_min <= p.lng /\ p.lng <= v.lng_max
         ELSE p.lng >= v.lng_min \/ p.lng <= v.lng_max
    ELSE FALSE

\* real_in_bounds = [p for p in real_data_points if in_bounds(p)]
RealInBounds(real_data_points, v) ==
    [raised |-> real_data_points.raised,
     points |-> SelectSeq(real_data_points.points,
                          LAMBDA p : in_bounds(p, v)),
     lookups |-> real_data_points.lookups]

\* heatmap_points.extend(.): the grid nodes, then the anchors
Extended(grid, real) ==
    [raised |-> real.raised, grid |-> Len(grid),
     points |-> grid \o real.points, lookups |-> real.lookups]

\* heatmap_points before the downsampling step, and how many of them are
\* grid nodes; bounds is None or a record of sw and ne; raised when an
\* exception leaves the anchor lookups
HeatmapPoints(seed, bounds, answers) ==
    IF bounds # None
    THEN Extended(BoundedGrid(seed, Viewport(bounds.sw, bounds.ne)),
                  RealInBounds(get_limited_real_data(answers),
                               Viewport(bounds.sw, bounds.ne)))
    ELSE Extended(IF seed \in HeatSeeds THEN GlobalGridAt[seed]
                  ELSE GlobalGrid(seed),
                  get_limited_real_data(answers))

\* the response: 500 when the handler raised, else 200 with the list
Response(h, d) ==
    IF h.raised \/ d.raised
    THEN [status |-> 500, grid |-> 0, before |-> << >>, points |-> << >>,
          lookups |-> h.lookups]
    ELSE [status |-> 200, grid |-> h.grid, before |-> h.points,
          points |-> d.points, lookups |-> h.lookups]

\* the downsampling step applied to the points h
Downsampled(h, max_points) == Response(h, Downsample(h.points, max_points))

\* the response to a request: 500 when the Maps key is not configured
\* (app.py:1578-1580)
get_heatmap_data(bounds, max_points, answers) ==
    IF ~mapsKey
    THEN [status |-> 500, grid |-> 0, before |-> << >>, points |-> << >>,
          lookups |-> << >>]
    ELSE Downsampled(HeatmapPoints(hashSeed, bounds, answers), max_points)

(***************************************************************************)
(* Clients of the heatmap endpoint.  Viewports are chosen so that the      *)
(* grid steps and nodes are held exactly by the source's doubles or lie    *)
(* far from the loop limits.                                               *)
(***************************************************************************)
Box(swLat, swLng, neLat, neLng) ==
    [sw |-> << swLat, swLng >>, ne |-> << neLat, neLng >>]

HalfDeg == Deg \div 2
QuarterDeg == Deg \div 4

\* sw = (33.5, -84.6), ne = (34.0, -84.2): no anchor inside
Atlanta == Box(33500000, -84600000, 34000000, -84200000)
\* around the NYC anchor
NewYork == Box(40 * Deg + HalfDeg, -74 * Deg - QuarterDeg,
               41 * Deg, -74 * Deg + QuarterDeg)
\* the same viewport with the latitudes reversed
NewYorkReversed == Box(41 * Deg, -74 * Deg - QuarterDeg,
                       40 * Deg + HalfDeg, -74 * Deg + QuarterDeg)
\* a viewport of zero width and height on the Tokyo anchor
TokyoPoint == Box(35676200, 139650300, 35676200, 139650300)
\* ending at the antimeridian without crossing it
EastEdge == Box(0, 179 * Deg + HalfDeg, HalfDeg, 180 * Deg)
\* starting at the antimeridian without crossing it
WestEdge == Box(0, -180 * Deg, HalfDeg, -179 * Deg - HalfDeg)
\* crossing the antimeridian, narrow
Dateline == Box(0, 179 * Deg + 3 * QuarterDeg, HalfDeg,
                -179 * Deg - 3 * QuarterDeg)
\* crossing the antimeridian from Tokyo eastwards, on Tokyo's latitude
Pacific == Box(35676200, 139 * Deg + HalfDeg, 35676200,
               -160 * Deg - HalfDeg)
\* reaching beyond latitude 85
Arctic == Box(84 * Deg + 3 * QuarterDeg, 10 * Deg,
              85 * Deg + QuarterDeg, 10 * Deg)

HeatBounds ==
    { Atlanta, NewYork, NewYorkReversed, TokyoPoint, EastEdge, WestEdge,
      Dateline, Pacific, Arctic }

\* max_points of a request: 1500 is the default (app.py:1590)
SmallMaxPoints == 9
MaxPointsChoices == { SmallMaxPoints, 50, 1500 }

\* what the remote provider does on the five anchor lookups of a request.
\* An "Ok" answer with aqi 0 stands for a WAQI answer whose aqi is no
\* positive number (0, or "-", which int() rejects).
Every(resp) == [n \in 1 .. Len(key_locations) |-> resp]
Answer(kind, aqi) == [kind |-> kind, aqi |-> aqi]
NoDataEverywhere == Every(Answer("NoData", 0))
AnchorAnswers ==
    { Every(Answer("Ok", 42)), Every(Answer("Timeout", 0)),
      Every(Answer("JsonNotObject", 0)), NoDataEverywhere,
      << Answer("Ok", 87), Answer("JsonNotObject", 0), Answer("Ok", 0),
         Answer("Timeout", 0), Answer("Ok", 42) >> }

\* a request and the response r to it
Exchange(bounds, max_points, answers, r) ==
    [bounds |-> bounds, max_points |-> max_points, answers |-> answers,
     status |-> r.status, grid |-> r.grid, before |-> r.before,
     points |-> r.points, lookups |-> r.lookups]

\* one request to /api/heatmap-data and its response
HeatmapRequest(bounds, max_points, answers) ==
    /\ pc = "idle"
    /\ token \/ answers = NoDataEverywhere
    /\ heat' = Exchange(bounds, max_points, answers,
                         get_heatmap_data(bounds, max_points, answers))
    /\ pc' = "done"
    /\ UNCHANGED << webVars, token, jsonErrIsRequestException, hashSeed, now,
                    nCalls,
                    last, stored, failRun, failRunStart, attemptsNow, est,
                    prevEst, mapsKey, down >>

\* the client takes the response
HeatmapReturn ==
    /\ pc = "done"
    /\ pc' = "idle"
    /\ heat' = None
    /\ UNCHANGED << webVars, token, jsonErrIsRequestException, hashSeed, now,
                    nCalls,
                    last, stored, failRun, failRunStart, attemptsNow, est,
                    prevEst, mapsKey, down >>

InitHeat ==
    /\ token \in BOOLEAN
    /\ jsonErrIsRequestException = TRUE
    /\ hashSeed \in HeatSeeds
    /\ now = 0
    /\ nCalls = 0
    /\ last = None
    /\ stored = [c \in ProviderCoords |-> None]
    /\ failRun = 0
    /\ failRunStart = 0
    /\ attemptsNow = 0
    /\ pc = "idle"
    /\ est = None
    /\ prevEst = None
    /\ mapsKey \in BOOLEAN
    /\ heat = None
    /\ down = None
    /\ InitWeb

NextHeat ==
    \/ \E bounds \in HeatBounds \cup { None },
          max_points \in MaxPointsChoices, answers \in AnchorAnswers :
          HeatmapRequest(bounds, max_points, answers)
    \/ HeatmapReturn

SpecHeat == InitHeat /\ [][NextHeat]_vars

(***************************************************************************)
(* The downsampling step on its own, on lists of distinct points.          *)
(***************************************************************************)
MaxTotal == 13

\* a list of total distinct points: the point at index i is i
Indexed(total) == [n \in 1 .. total |-> n - 1]

\* a run of the step and its result d
Sampling(heatmap_points, max_points, d) ==
    [heatmap_points |-> heatmap_points, max_points |-> max_points,
     raised |-> d.raised, sampled |-> d.points]

DownsampleCall(total, max_points) ==
    /\ pc = "idle"
    /\ down' = Sampling(Indexed(total), max_points,
                         Downsample(Indexed(total), max_points))
    /\ pc' = "done"
    /\ UNCHANGED << webVars, token, jsonErrIsRequestException, hashSeed, now,
                    nCalls,
                    last, stored, failRun, failRunStart, attemptsNow, est,
                    prevEst, mapsKey, heat >>

DownsampleReturn ==
    /\ pc = "done"
    /\ pc' = "idle"
    /\ down' = None
    /\ UNCHANGED << webVars, token, jsonErrIsRequestException, hashSeed, now,
                    nCalls,
                    last, stored, failRun, failRunStart, attemptsNow, est,
                    prevEst, mapsKey, heat >>

NextDown ==
    \/ \E total \in 0 .. MaxTotal, max_points \in -1 .. (MaxTotal + 1) :
          DownsampleCall(total, max_points)
    \/ DownsampleReturn

\* the step reads neither the configuration nor the hash seed
InitDown ==
    /\ token = FALSE
    /\ jsonErrIsRequestException = TRUE
    /\ hashSeed = 0
    /\ now = 0
    /\ nCalls = 0
    /\ last = None
    /\ stored = [c \in ProviderCoords |-> None]
    /\ failRun = 0
    /\ failRunStart = 0
    /\ attemptsNow = 0
    /\ pc = "idle"
    /\ est = None
    /\ prevEst = None
    /\ mapsKey = TRUE
    /\ heat = None
    /\ down = None
    /\ InitWeb

SpecDown == InitDown /\ [][NextDown]_vars

(***************************************************************************)
(* Properties of the downsampling step (checked under SpecDown).           *)
(***************************************************************************)
\* C16: downsample bound: for every point list and every positive maxPoints
\* k, the list returned has length <= k, and when len(points) <= k it is the
\* input list unchanged.
C16_DownsampleBound ==
    (down # None /\ down.max_points > 0) =>
        /\ ~down.raised
        /\ Len(down.sampled) <= down.max_points
        /\ Len(down.heatmap_points) <= down.max_points =>
               down.sampled = down.heatmap_points

\* C16, its case: a list longer than maxPoints cut down to maxPoints points.
C16_Witness ==
    /\ down # None
    /\ Len(down.heatmap_points) = MaxTotal
    /\ down.max_points = 5
    /\ Len(down.sampled) = 5

\* the points at indices floor(j * stride), j = 0, 1, 2, ..., with the real
\* number stride = len(points) / maxPoints, until maxPoints are collected
\* (floor(j * stride) < len(points) for every j < maxPoints)
AtStrideMultiples(points, maxPoints) ==
    [n \in 1 .. maxPoints |->
        points[((n - 1) * Len(points)) \div maxPoints + 1]]

\* C17: downsample selection: when len(points) > maxPoints, the output is
\* exactly the input points at indices floor(j * stride), j = 0, 1, 2, ...,
\* with stride = len(points) / maxPoints, in input order.
C17_DownsampleSelection ==
    (down # None /\ down.max_points >= 1
        /\ Len(down.heatmap_points) > down.max_points) =>
        down.sampled = AtStrideMultiples(down.heatmap_points, down.max_points)

(***************************************************************************)
(* Properties of get_heatmap_data (checked under SpecHeat).                *)
(***************************************************************************)
\* a request has been answered with a list of points
Returned == heat # None /\ heat.status = 200

\* the viewport of the answered request, when it gave bounds
View == Viewport(heat.bounds.sw, heat.bounds.ne)

Bounded == Returned /\ heat.bounds # None
NonCrossing == Bounded /\ ~View.crosses_antimeridian
Crossing == Bounded /\ View.crosses_antimeridian

\* the longitude jitter hash % 4 - 2 moves a node by -2 .. 1 degrees
JitterWest == 2 * Deg
JitterEast == Deg

\* C12: latitude containment: for any bounds (or none), every point
\* returned, jittered grid node or anchor, has lat in [-85, 85].
C12_LatContained ==
    Returned =>
        \A n \in 1 .. Len(heat.points) :
            /\ -85 * Deg <= heat.points[n].lat
            /\ heat.points[n].lat <= 85 * Deg

\* C12, its case: a viewport reaching beyond latitude 85, with a grid node
\* that the clamp has put on 85.
C12_Witness ==
    /\ Returned
    /\ heat.bounds = Arctic
    /\ \E n \in 1 .. Len(heat.points) :
          heat.points[n].estimated /\ heat.points[n].lat = 85 * Deg

\* C13 as stated: non-crossing viewport (lngMin <= lngMax): every point
\* returned has lng in [lngMin, lngMax], within the tolerance of the jitter.
C13_LngContained ==
    NonCrossing =>
        \A n \in 1 .. Len(heat.points) :
            /\ View.lng_min - JitterWest <= heat.points[n].lng
            /\ heat.points[n].lng <= View.lng_max + JitterEast

\* x lies in [lo, hi], or is the wrapped form of a longitude in [lo, hi]
\* beyond 180 or below -180
InRangeOrWrapped(x, lo, hi) ==
    \/ lo <= x /\ x <= hi
    \/ x + 360 * Deg > 180 * Deg /\ lo <= x + 360 * Deg /\ x + 360 * Deg <= hi
    \/ x - 360 * Deg < -180 * Deg /\ lo <= x - 360 * Deg
          /\ x - 360 * Deg <= hi

\* C13 as amended: non-crossing viewport: every point returned has lng in
\* [lngMin - 2, lngMax + 1] (the jitter's reach), or is such a longitude
\* beyond 180 or below -180 wrapped by 360 to the other side.
C13_LngContainedOrWrapped ==
    NonCrossing =>
        \A n \in 1 .. Len(heat.points) :
            InRangeOrWrapped(heat.points[n].lng, View.lng_min - JitterWest,
                             View.lng_max + JitterEast)

\* C13, its case: a viewport ending at longitude 180 whose node on 180 was
\* moved east by the jitter and wrapped to -179.
C13_Witness ==
    /\ NonCrossing
    /\ heat.bounds = EastEdge
    /\ \E n \in 1 .. Len(heat.points) : heat.points[n].lng = -179 * Deg

C15_LngDomain ==
    Returned =>
        /\ \A n \in 1 .. Len(heat.points) :
              /\ -180 * Deg <= heat.points[n].lng
              /\ heat.points[n].lng <= 180 * Deg
        /\ heat.bounds = None =>
              \A n \in 1 .. heat.grid :
                  heat.before[n].lng =
                      WrapLng(GlobalLng(n)
                                + LngJitter(hashSeed, GlobalLat(n),
                                            GlobalLng(n)))

\* C18 as stated: get_heatmap_data never errors: for absent bounds or any
\* valid bounds (reversed latitudes, zero-width spans and crossings of the
\* antimeridian included), any positive max_points and any behaviour of the
\* remote provider during the anchor lookups, the response is a list of
\* points.
C18_NeverErrors == heat # None => heat.status = 200

\* C18 as amended: the same, provided the server's Google Maps API key is
\* configured.
C18_NeverErrorsWithKey == (heat # None /\ mapsKey) => heat.status = 200

\* C18, its case: reversed latitudes, and every anchor lookup answered by a
\* body that makes get_air_quality raise.
C18_Witness ==
    /\ heat # None
    /\ mapsKey /\ token
    /\ heat.bounds = NewYorkReversed
    /\ heat.answers = Every(Answer("JsonNotObject", 0))
    /\ heat.status = 200
    /\ Len(heat.points) = heat.grid

\* C19: anchor filtering: when bounds are given, a point that is no
\* estimate appears in the result only if its latitude is in
\* [latMin, latMax] and its longitude is inside the viewport
\* (lngMin <= lng <= lngMax when not crossing; lng >= lngMin or
\* lng <= lngMax when crossing).
C19_AnchorsInBounds ==
    Bounded =>
        \A n \in 1 .. Len(heat.points) :
            LET p == heat.points[n]
            IN  ~p.estimated =>
                    /\ View.lat_min <= p.lat /\ p.lat <= View.lat_max
                    /\ View.lng_min <= View.lng_max =>
                           (View.lng_min <= p.lng /\ p.lng <= View.lng_max)
                    /\ View.lng_min > View.lng_max =>
                           (p.lng >= View.lng_min \/ p.lng <= View.lng_max)

\* C19, its case: all five anchors resolved by the remote provider, a
\* viewport around New York: the NYC anchor is the only one returned.
C19_Witness ==
    /\ Bounded
    /\ heat.bounds = NewYork
    /\ token
    /\ heat.answers = Every(Answer("Ok", 42))
    /\ Len(heat.points) = heat.grid + 1
    /\ heat.points[heat.grid + 1] = RealPoint(key_locations[1], 42)

AnchorCoords == { key_locations[n] : n \in 1 .. Len(key_locations) }

\* the point carries the estimate of its own coordinates
IsEstimate(p) ==
    /\ p.estimated = TRUE
    /\ p.aqi = estimate_pollution_by_location(hashSeed, p.lat, p.lng)
    /\ p.weight = p.aqi

\* the point is a measured one at an anchor coordinate
IsAnchor(p) ==
    /\ p.estimated = FALSE
    /\ << p.lat, p.lng >> \in AnchorCoords
    /\ p.weight = p.aqi

\* C20: estimated flag: in every result each grid-node point has
\* estimated = true, aqi equal to the estimate of its jittered coordinates
\* and weight = aqi; the only points with estimated = false are anchor
\* points, which sit at an anchor coordinate and have weight = aqi.
C20_EstimatedFlag ==
    Returned =>
        /\ \A n \in 1 .. Len(heat.before) :
              IF n <= heat.grid THEN IsEstimate(heat.before[n])
              ELSE IsAnchor(heat.before[n])
        /\ \A n \in 1 .. Len(heat.points) :
              IsEstimate(heat.points[n]) \/ IsAnchor(heat.points[n])

\* C20, its case: a viewport from Tokyo across the antimeridian: 31 grid
\* nodes, then the Tokyo anchor with the value the remote provider gave.
C20_Witness ==
    /\ Returned
    /\ heat.bounds = Pacific
    /\ token
    /\ heat.answers = Every(Answer("Ok", 42))
    /\ heat.grid = 31
    /\ Len(heat.points) = 32
    /\ heat.points[1].estimated
    /\ heat.points[32] = RealPoint(key_locations[5], 42)


(***************************************************************************)
(* Concurrent requests.  The server handles each request on a thread of    *)
(* its own (app.run, app.py:1871); a thread handling /api/query or         *)
(* /api/forecast calls get_air_quality once, one handling                  *)
(* /api/heatmap-data calls it once per key location, one after the other   *)
(* (get_limited_real_data).  get_air_quality reads and writes no state     *)
(* shared between threads: a call with a token configured goes straight to *)
(* requests.get.  attemptsNow counts the remote calls begun at the current *)
(* instant; Tick is the clock.                                             *)
(***************************************************************************)
MaxRequests == 3

Endpoints == { "query", "forecast", "heatmap-data" }

\* the get_air_quality calls a request makes
Lookups(endpoint) ==
    IF endpoint = "heatmap-data" THEN Len(key_locations) ELSE 1

\* a thread takes a request
Accept(w, endpoint) ==
    /\ workers[w] = None
    /\ nCalls < MaxRequests
    /\ nCalls' = nCalls + 1
    /\ workers' = [workers EXCEPT ![w] =
                       [endpoint |-> endpoint, pending |-> Lookups(endpoint),
                        waiting |-> FALSE]]
    /\ UNCHANGED << heatVars, token, jsonErrIsRequestException, hashSeed, now,
                    last, stored, failRun, failRunStart, attemptsNow, pc,
                    est, prevEst, otherVars >>

\* get_air_quality with a token: requests.get(url, timeout=8) is begun
RemoteBegin(w) ==
    /\ workers[w] # None
    /\ workers[w].pending > 0 /\ ~workers[w].waiting
    /\ token
    /\ workers' = [workers EXCEPT ![w].waiting = TRUE]
    /\ attemptsNow' = attemptsNow + 1
    /\ UNCHANGED << heatVars, token, jsonErrIsRequestException, hashSeed, now,
                    nCalls, last, stored, failRun, failRunStart, pc, est,
                    prevEst, otherVars >>

\* the remote call ends (an answer, an error or the timeout) and
\* get_air_quality returns or raises
RemoteEnd(w) ==
    /\ workers[w] # None
    /\ workers[w].waiting
    /\ workers' = [workers EXCEPT ![w].waiting = FALSE,
                                  ![w].pending = @ - 1]
    /\ UNCHANGED << heatVars, token, jsonErrIsRequestException, hashSeed, now,
                    nCalls, last, stored, failRun, failRunStart, attemptsNow,
                    pc, est, prevEst, otherVars >>

\* get_air_quality without a token: the estimate, no remote call
LocalLookup(w) ==
    /\ workers[w] # None
    /\ workers[w].pending > 0 /\ ~workers[w].waiting
    /\ ~token
    /\ workers' = [workers EXCEPT ![w].pending = @ - 1]
    /\ UNCHANGED << heatVars, token, jsonErrIsRequestException, hashSeed, now,
                    nCalls, last, stored, failRun, failRunStart, attemptsNow,
                    pc, est, prevEst, otherVars >>

\* the thread sends the response
Respond(w) ==
    /\ workers[w] # None
    /\ workers[w].pending = 0
    /\ workers' = [workers EXCEPT ![w] = None]
    /\ UNCHANGED << heatVars, token, jsonErrIsRequestException, hashSeed, now,
                    nCalls, last, stored, failRun, failRunStart, attemptsNow,
                    pc, est, prevEst, otherVars >>

NextConc ==
    \/ \E w \in Workers, endpoint \in Endpoints : Accept(w, endpoint)
    \/ \E w \in Workers : RemoteBegin(w)
    \/ \E w \in Workers : RemoteEnd(w)
    \/ \E w \in Workers : LocalLookup(w)
    \/ \E w \in Workers : Respond(w)
    \/ Tick

SpecConc == Init /\ [][NextConc]_vars

\* the budgets a rate window could be configured with here: below the
\* number of lookups MaxRequests heatmap requests make
Budgets == 1 .. (MaxRequests * Len(key_locations) - 1)

\* C21 (checked under SpecConc): under any interleaving of concurrent
\* single-point and heatmap requests the shared provider state stays
\* consistent; of its three parts the code has only the remote calls
\* themselves to observe: for some budget maxPerMinute, no more than
\* maxPerMinute remote calls are admitted at one instant (which lies in one
\* 60-second window).
C21_ConcurrentRateWindow ==
    \E maxPerMinute \in Budgets : attemptsNow <= maxPerMinute


(***************************************************************************)
(* The fallback of get_air_quality under every hash seed: callers whose    *)
(* remote call, if one is made, succeeds, reports no data or times out.    *)
(***************************************************************************)
FallbackResponses ==
    { [kind |-> "Ok", aqi |-> 42], [kind |-> "NoData", aqi |-> 0],
      [kind |-> "Timeout", aqi |-> 0] }

InitSample ==
    /\ token \in BOOLEAN
    /\ jsonErrIsRequestException = TRUE
    /\ hashSeed \in Seeds
    /\ now = 0
    /\ nCalls = 0
    /\ last = None
    /\ stored = [c \in ProviderCoords |-> None]
    /\ failRun = 0
    /\ failRunStart = 0
    /\ attemptsNow = 0
    /\ pc = "idle"
    /\ est = None
    /\ prevEst = None
    /\ mapsKey = TRUE
    /\ heat = None
    /\ down = None
    /\ InitWeb

NextSample ==
    \E c \in ProviderCoords, resp \in FallbackResponses :
        GetAirQuality(c, resp)

SpecSample == InitSample /\ [][NextSample]_vars

\* the last call of get_air_quality fell back to the estimation model
FellBack == last # None /\ ~last.raised /\ last.kind # "Ok"

\* the pollutant at index n has the greatest synthetic AQI of the breakdown
\* and is the first to have it
FirstGreatest(pollutants, n) ==
    /\ \A m \in 1 .. Len(pollutants) : pollutants[m].aqi <= pollutants[n].aqi
    /\ \A m \in 1 .. (n - 1) : pollutants[m].aqi < pollutants[n].aqi

\* C22 (checked under SpecSample): whenever get_air_quality falls back, the
\* sample has provider "estimate", the aqi of estimate_pollution_by_location
\* at the coordinates, a breakdown of the six codes pm25, pm10, o3, no2,
\* so2, co in this order, and as dominant_pollutant the code of the first
\* pollutant of the breakdown whose synthetic AQI is the greatest.
C22_FallbackSample ==
    FellBack =>
        /\ last.sample.provider = "estimate"
        /\ last.sample.aqi =
               estimate_pollution_by_location(hashSeed, last.lat, last.lng)
        /\ [n \in 1 .. Len(last.sample.pollutants) |->
               last.sample.pollutants[n].code]
             = << "pm25", "pm10", "o3", "no2", "so2", "co" >>
        /\ \E n \in 1 .. Len(last.sample.pollutants) :
               /\ last.sample.dominant_pollutant
                    = last.sample.pollutants[n].code
               /\ FirstGreatest(last.sample.pollutants, n)

\* C22, its case: a remote call that timed out, and a breakdown in which
\* pm25 and a later pollutant tie for the greatest synthetic AQI: pm25 is
\* the dominant pollutant.
C22_Witness ==
    /\ FellBack
    /\ last.kind = "Timeout"
    /\ last.sample.dominant_pollutant = "pm25"
    /\ \E m \in 2 .. 6 :
           /\ last.sample.pollutants[m].aqi = last.sample.pollutants[1].aqi
           /\ last.sample.pollutants[1].aqi > 0


(***************************************************************************)
(* More properties of estimate_pollution_by_location (checked under        *)
(* SpecEst).                                                               *)
(***************************************************************************)
\* the hotspots whose radius the coordinate c is within
Within(c) ==
    { i \in 1 .. Len(pollution_hotspots) :
        InRadius(c[1], c[2], pollution_hotspots[i]) }

\* floor of the largest single peak * (1 - distance / radius) among the
\* hotspots in is, 0 if there is none
Largest(c, is) ==
    IF is = { } THEN 0
    ELSE LET i == CHOOSE i \in is :
                      \A j \in is :
                          Contribution(c[1], c[2], pollution_hotspots[j])
                            <= Contribution(c[1], c[2],
                                            pollution_hotspots[i])
         IN  Contribution(c[1], c[2], pollution_hotspots[i])

\* for every coordinate in use: the hotspots it is within and the largest
\* single contribution
SingleLargestAt ==
    [c \in EstCoords |->
        [within |-> Within(c), largest |-> Largest(c, Within(c))]]

LandNonPolar(lat, lng) == ~is_ocean_area(lat, lng) /\ Abs(lat) <= 65 * Deg

\* the jitter of the land branch, in -10 .. 9
Jitter(lat, lng) == (pyhash(hashSeed, "var", lat, lng) % 20) - 10

Clamp(x, lo, hi) == Max(lo, Min(hi, x))

\* C23: hotspots do not sum: for a land, non-polar coordinate the value is
\* clamp(floor(20 + the largest single peak * (1 - distance / radius) of
\* the hotspots within whose radius it lies + jitter), 5, 200), and
\* clamp(20 + jitter, 5, 200) for a coordinate within no hotspot.
C23_LargestOnly ==
    (est # None /\ LandNonPolar(est.lat, est.lng)) =>
        est.aqi = Clamp(base_pollution
                          + SingleLargestAt[<< est.lat, est.lng >>].largest
                          + Jitter(est.lat, est.lng), 5, 200)

\* C23, its case: the center of the Shenzhen hotspot (peak 125) lies within
\* other hotspots too (Guangzhou's among them); with the largest jitter
\* the value is 20 + 125 + 9.
C23_Witness ==
    /\ est # None
    /\ est.lat = 22543100 /\ est.lng = 114057900
    /\ Cardinality(SingleLargestAt[<< est.lat, est.lng >>].within) >= 2
    /\ est.aqi = 154


\* C24: ocean / polar short-circuit: for every coordinate is_ocean_area
\* classifies as ocean the value is in [15, 24], and for every other
\* coordinate with |lat| > 65 it is in [10, 17], whether or not the
\* coordinate lies within a hotspot's radius.
C24_ShortCircuit ==
    est # None =>
        /\ is_ocean_area(est.lat, est.lng) => est.aqi \in 15 .. 24
        /\ (~is_ocean_area(est.lat, est.lng) /\ Abs(est.lat) > 65 * Deg) =>
               est.aqi \in 10 .. 17

\* C24, its case: the center of the Sydney hotspot (peak 65) is classified
\* as ocean (lng > 150): the value there is at most 24.
C24_Witness ==
    /\ est # None
    /\ est.lat = -33868800 /\ est.lng = 151209300
    /\ is_ocean_area(est.lat, est.lng)
    /\ SingleLargestAt[<< est.lat, est.lng >>].largest = 65
    /\ est.aqi = 24


(***************************************************************************)
(* The size of the grid get_heatmap_data lays over a viewport, on its own: *)
(* the steps, the number of rows and of nodes per row, and the key         *)
(* locations within the bounds.  The corners of the viewports are          *)
(* multiples of 7.5 degrees, so that every step is a multiple of 0.25      *)
(* degrees and the sums lat += lat_step, lng += lng_step are exact in the  *)
(* source's doubles.                                                       *)
(***************************************************************************)
CornerStride == 3

Corner == (15 * Deg) \div 2

LatCorners ==
    { -90 * Deg + CornerStride * Corner * i : i \in 0 .. (24 \div CornerStride) }
LngCorners ==
    { -180 * Deg + CornerStride * Corner * i :
        i \in 0 .. (48 \div CornerStride) }

\* crossing the antimeridian, from 4 E eastwards to 4 W, pole to pole
WideCrossing == Box(-90 * Deg, 4 * Deg, 90 * Deg, -4 * Deg)

GridBounds ==
    { Box(a, b, c, d) : a \in LatCorners, b \in LngCorners,
                        c \in LatCorners, d \in LngCorners }
      \cup HeatBounds \cup { WideCrossing }

\* how many of the key locations pass the bounds filter
AnchorsWithin(v) ==
    Cardinality({ n \in 1 .. Len(key_locations) :
                    in_bounds(RealPoint(key_locations[n], 1), v) })

\* the grid laid over the viewport v of the request's bounds
Laid(bounds, v) ==
    [bounds |-> bounds, lat_step |-> LatStep(v), lng_step |-> LngStep(v),
     rows |-> Rows(v), width |-> Width(v), anchors |-> AnchorsWithin(v)]

\* the global grid of a request without bounds (app.py:1691-1710)
LaidGlobal ==
    [bounds |-> None, lat_step |-> 6 * Deg, lng_step |-> 8 * Deg,
     rows |-> GlobalRows, width |-> GlobalCols,
     anchors |-> Len(key_locations)]

GridLay(bounds) ==
    /\ pc = "idle"
    /\ shape' = IF bounds = None THEN LaidGlobal
                ELSE Laid(bounds, Viewport(bounds.sw, bounds.ne))
    /\ pc' = "done"
    /\ UNCHANGED << heatVars, token, jsonErrIsRequestException, hashSeed, now,
                    nCalls, last, stored, failRun, failRunStart, attemptsNow,
                    est, prevEst, workers, user_profiles, profileCall,
                    forecast >>

GridReturn ==
    /\ pc = "done"
    /\ pc' = "idle"
    /\ shape' = None
    /\ UNCHANGED << heatVars, token, jsonErrIsRequestException, hashSeed, now,
                    nCalls, last, stored, failRun, failRunStart, attemptsNow,
                    est, prevEst, workers, user_profiles, profileCall,
                    forecast >>

NextGrid ==
    \/ /\ pc = "idle"
       /\ \E bounds \in GridBounds \cup { None } : GridLay(bounds)
    \/ GridReturn

SpecGrid == InitDown /\ [][NextGrid]_vars

\* the spans of the bounds b in latitude and in longitude
LatSpan(b) == Abs(b.ne[1] - b.sw[1])
LngSpan(b) ==
    IF b.sw[2] <= b.ne[2] THEN b.ne[2] - b.sw[2]
    ELSE 360 * Deg - (b.sw[2] - b.ne[2])

\* span / 30 clamped to [0.25, 8] degrees, 1 degree for a span of 0
ClampedStep(span) ==
    IF span = 0 THEN Deg ELSE Clamp(span \div 30, Deg \div 4, 8 * Deg)

\* the default of max_points (app.py:1590)
DefaultMaxPoints == 1500

\* C25 (checked under SpecGrid): bounded grid density: for bounds within
\* [-90, 90] x [-180, 180] each axis step is span / 30 clamped to [0.25, 8]
\* degrees (1.0 for a span of 0), the grid has at most 31 rows and at most
\* 46 nodes per row, crossing the antimeridian or not, and with the anchors
\* the number of points before downsampling is below 1500; so is that of
\* the global grid.
C25_GridDensity ==
    shape # None =>
        /\ shape.bounds # None =>
               /\ shape.lat_step = ClampedStep(LatSpan(shape.bounds))
               /\ shape.lng_step = ClampedStep(LngSpan(shape.bounds))
               /\ shape.rows <= 31
               /\ shape.width <= 46
        /\ shape.rows * shape.width + shape.anchors < DefaultMaxPoints

\* C25, its case: the whole world as the viewport: steps of 6 and 8
\* degrees, 31 rows of 46 nodes and all five anchors, 1431 points.
C25_Witness ==
    /\ shape # None
    /\ shape.bounds = Box(-90 * Deg, -180 * Deg, 90 * Deg, 180 * Deg)
    /\ shape.lat_step = 6 * Deg /\ shape.lng_step = 8 * Deg
    /\ shape.rows = 31 /\ shape.width = 46
    /\ shape.rows * shape.width + shape.anchors = 1431


(***************************************************************************)
(* More properties of get_heatmap_data (checked under SpecHeat).           *)
(***************************************************************************)
\* C26: provider usage: whatever the bounds and max_points, a heatmap
\* request calls get_air_quality exactly once per key location, five calls
\* in the order of the list, also for the locations the bounds filter then
\* drops, and never for a grid node.
C26_FiveLookups == heat # None => heat.lookups = key_locations

\* C26 as amended: the same of every request made while the Google Maps API
\* key is configured; without the key the handler returns before any
\* lookup.
C26_FiveLookupsWithKey ==
    (heat # None /\ mapsKey) => heat.lookups = key_locations

\* C26, its case: a viewport that holds no key location, downsampled to
\* nine points; the remote provider answers all five lookups, and none of
\* the answers is among the points.
C26_Witness ==
    /\ heat # None
    /\ mapsKey /\ token
    /\ heat.bounds = Atlanta
    /\ heat.max_points = SmallMaxPoints
    /\ heat.answers = Every(Answer("Ok", 42))
    /\ Len(heat.lookups) = 5
    /\ Len(heat.before) = heat.grid
    /\ heat.status = 200


(***************************************************************************)
(* More properties of the downsampling step.                               *)
(***************************************************************************)
\* the step cuts the list down: len(points) > maxPoints >= 1
CutsDown(points, max_points) == 1 <= max_points /\ max_points < Len(points)

\* C27 (checked under SpecDown, where the point at index i is i): whenever
\* downsampling occurs the output has exactly maxPoints points, taken at
\* strictly increasing indices of the input starting at index 0, so no
\* input point is returned twice.
C27_ExactlyMaxPoints ==
    (down # None /\ CutsDown(down.heatmap_points, down.max_points)) =>
        /\ Len(down.sampled) = down.max_points
        /\ down.sampled[1] = 0
        /\ \A n \in 1 .. (Len(down.sampled) - 1) :
               down.sampled[n] < down.sampled[n + 1]
        /\ \A n \in 1 .. Len(down.sampled) :
               down.sampled[n] \in 0 .. (Len(down.heatmap_points) - 1)

\* C27, its case: twelve points cut down to nine, where the accumulated
\* index falls short of 12 after nine steps.
C27_Witness ==
    /\ down # None
    /\ Len(down.heatmap_points) = 12
    /\ down.max_points = 9
    /\ down.sampled = << 0, 1, 2, 4, 5, 6, 7, 9, 10 >>

\* the indices the step selects from a list of total points
SelectedIndices(total, max_points) ==
    { Downsample(Indexed(total), max_points).points[n] :
        n \in 1 .. Len(Downsample(Indexed(total), max_points).points) }

\* C28 (checked under SpecHeat): whenever downsampling occurs the last
\* point of the list is not selected; the anchors follow the grid nodes in
\* the list, so the last anchor that passed the bounds filter is not among
\* the points returned.
C28_LastDropped ==
    (heat # None /\ heat.status = 200
        /\ CutsDown(heat.before, heat.max_points)) =>
        /\ (Len(heat.before) - 1)
             \notin SelectedIndices(Len(heat.before), heat.max_points)
        /\ Len(heat.before) > heat.grid =>
               /\ IsAnchor(heat.before[Len(heat.before)])
               /\ \A n \in 1 .. Len(heat.points) :
                      heat.points[n] # heat.before[Len(heat.before)]

\* C28, its case: the viewport around New York: nine grid nodes and the
\* New York anchor, cut down to nine points, the anchor not among them.
C28_Witness ==
    /\ heat # None /\ heat.status = 200
    /\ heat.bounds = NewYork
    /\ heat.max_points = SmallMaxPoints
    /\ heat.grid = 9
    /\ Len(heat.before) = 10
    /\ heat.before[10] = RealPoint(key_locations[1], 42)
    /\ Len(heat.points) = 9
    /\ \A n \in 1 .. 9 : heat.points[n].estimated


(***************************************************************************)
(* update_user_profile (app.py:481-523), POST /api/user/profile.           *)
(* A request carries a bearer token that get_user_from_token resolves to a *)
(* user or to None, and a JSON body.  Of the body the model keeps age and  *)
(* activity_level; the other fields are stored as sent.  An age is         *)
(*   absent, null     data.get('age') is None                              *)
(*   number           a JSON number, held in tenths                        *)
(*   digits           a string int() accepts, such as "25"                 *)
(*   text             any other string: int() raises ValueError            *)
(*   list             a list or an object: int() raises TypeError          *)
(*   infinity         the number Infinity, which the JSON decoder accepts: *)
(*                    int() raises OverflowError                           *)
(***************************************************************************)
Age(kind, value) == [kind |-> kind, value |-> value]

AgeInputs ==
    { Age("absent", 0), Age("null", 0), Age("digits", 25), Age("text", 0),
      Age("list", 0), Age("infinity", 0) }
      \cup { Age("number", t) : t \in { -10, -5, 0, 305, 1200, 1205, 1210 } }

ActivityInputs == { "absent", "high", "extreme" }

\* the JSON bodies: null, or an object with these two fields
Bodies ==
    { None } \cup { [age |-> a, activity_level |-> l] :
                      a \in AgeInputs, l \in ActivityInputs }

valid_activity_levels == << "low", "moderate", "high", "very_high" >>

\* int(x) of a float truncates towards zero; t is in tenths
Truncate(t) == IF t >= 0 THEN t \div 10 ELSE -((-t) \div 10)

\* int(profile['age']): the value, or the exception raised
IntOfAge(a) ==
    CASE a.kind = "number"   -> [raised |-> "none", value |-> Truncate(a.value)]
      [] a.kind = "digits"   -> [raised |-> "none", value |-> a.value]
      [] a.kind = "text"     -> [raised |-> "ValueError", value |-> 0]
      [] a.kind = "list"     -> [raised |-> "TypeError", value |-> 0]
      [] a.kind = "infinity" -> [raised |-> "OverflowError", value |-> 0]

\* profile['activity_level'] after its validation
ActivityLevel(l) ==
    IF \E n \in 1 .. Len(valid_activity_levels) : valid_activity_levels[n] = l
    THEN l ELSE "moderate"

\* what get_user_from_token returns: None, or the user of the token
Bearers == { None } \cup { [user_id |-> u] : u \in Users }

\* an age as stored: None or an int
IntAge(n) == [int |-> n]

\* the response and the store after it
Reply(status, store) == [status |-> status, store |-> store]

\* the profile is stored and 200 returned
Stored(user, age, data, store) ==
    Reply(200, [store EXCEPT ![user.user_id] =
                    [age |-> age,
                     activity_level |-> ActivityLevel(data.activity_level)]])

\* the age validation (app.py:504-511) and what follows it, for the result
\* n of int(profile['age'])
ValidateAge(user, n, data, store) ==
    IF n.raised \in { "ValueError", "TypeError" } THEN Reply(400, store)
    ELSE IF n.raised # "none" THEN Reply(500, store)
    ELSE IF n.value < 0 \/ n.value > 120 THEN Reply(400, store)
    ELSE Stored(user, IntAge(n.value), data, store)

\* user is get_user_from_token()'s result, data the body; an exception the
\* handler does not catch is answered with 500
update_user_profile(user, data, store) ==
    IF user = None THEN Reply(401, store)
    ELSE IF data = None THEN Reply(500, store)
    ELSE IF data.age.kind \in { "absent", "null" }
    THEN Stored(user, None, data, store)
    ELSE ValidateAge(user, IntOfAge(data.age), data, store)

\* a request, the response r to it and the store as it was before
ProfileExchange(user, data, r) ==
    [user |-> user, data |-> data, status |-> r.status,
     before |-> user_profiles]

UpdateProfile(user, data) ==
    /\ profileCall' =
           ProfileExchange(user, data,
                           update_user_profile(user, data, user_profiles))
    /\ user_profiles' = update_user_profile(user, data, user_profiles).store
    /\ UNCHANGED << heatVars, token, jsonErrIsRequestException, hashSeed, now,
                    nCalls, last, stored, failRun, failRunStart, attemptsNow,
                    pc, est, prevEst, workers, forecast, shape >>

NextProfile ==
    \E user \in Bearers, data \in Bodies : UpdateProfile(user, data)

SpecProfile == InitDown /\ [][NextProfile]_vars


(***************************************************************************)
(* Properties of update_user_profile (checked under SpecProfile).          *)
(***************************************************************************)
\* the last request left the store as it was
StoreUnchanged == user_profiles = profileCall.before

\* the last request was authenticated and had an object as its body
WithBody == profileCall.user # None /\ profileCall.data # None

\* the age sent is no number / a number outside 0 .. 120 (in tenths)
NonNumericAge(a) == a.kind \in { "text", "list" }
AgeOutOfRange(a) == a.kind = "number" /\ (a.value < 0 \/ a.value > 1200)

\* C29: update_user_profile changes user_profiles only on a successful
\* request and then only the entry of the authenticated user: an
\* unauthenticated request (401), a non-numeric age (400) and an age outside
\* 0..120 (400) leave the store unchanged; every stored profile has age None
\* or an integer in 0..120 and an activity_level among low, moderate, high,
\* very_high.
C29_ProfileStore ==
    /\ profileCall # None =>
           /\ profileCall.status # 200 => StoreUnchanged
           /\ \A u \in Users :
                  (profileCall.user = None \/ u # profileCall.user.user_id)
                      => user_profiles[u] = profileCall.before[u]
           /\ profileCall.user = None =>
                  profileCall.status = 401 /\ StoreUnchanged
           /\ (WithBody /\ NonNumericAge(profileCall.data.age)) =>
                  profileCall.status = 400 /\ StoreUnchanged
           /\ (WithBody /\ AgeOutOfRange(profileCall.data.age)) =>
                  profileCall.status = 400 /\ StoreUnchanged
    /\ \A u \in Users :
           user_profiles[u] # None =>
               /\ \/ user_profiles[u].age = None
                  \/ user_profiles[u].age.int \in 0 .. 120
               /\ user_profiles[u].activity_level
                    \in { "low", "moderate", "high", "very_high" }


(***************************************************************************)
(* get_forecast_data (app.py:1537-1573), POST /api/forecast.  lat and lng  *)
(* of the body are None when absent, else a number.                        *)
(***************************************************************************)
Num(n) == [num |-> n]

ForecastLats == { None, Num(0), Num(10 * Deg), Num(40712800) }
ForecastLngs == { None, Num(0), Num(-150 * Deg), Num(-74006000) }

\* "not x" of Python for None and for a number
Falsy(x) == x = None \/ x.num = 0

\* hash(f"{lat}_{lng}_{i}") for the day i in 0 .. 6: as pyhash, a function of
\* the process seed and the string that takes every residue as the seed
\* varies
DayStride == << 1, 7, 11, 13, 17, 19, 23 >>
pyhash_day(seed, i, a, b) ==
    (seed * DayStride[i + 1] + StrCode("day", a, b) + 3 * i) % HashRange

\* forecast_aqi = max(10, min(200, int(base_aqi + day_variation
\*                                     + seasonal_trend)))
\* with seasonal_trend = 5 * (i - 3) / 3: a sum below 10 gives 10 whichever
\* way int() truncates, and from 10 on int() is the floor
ForecastAqi(seed, base_aqi, lat, lng, i) ==
    Max(10, Min(200, base_aqi + ((pyhash_day(seed, i, lat, lng) % 30) - 15)
                       + ((5 * (i - 3)) \div 3)))

\* the loop for i in range(7)
forecast_values(seed, base_aqi, lat, lng) ==
    [n \in 1 .. 7 |-> ForecastAqi(seed, base_aqi, lat, lng, n - 1)]

\* the response once get_air_quality has returned or raised
Forecast(current_aqi_data, lat, lng) ==
    IF current_aqi_data.raised THEN [status |-> 500, values |-> << >>]
    ELSE [status |-> 200,
          values |-> forecast_values(hashSeed, current_aqi_data.sample.aqi,
                                     lat, lng)]

get_forecast_data(lat, lng, resp) ==
    IF Falsy(lat) \/ Falsy(lng) THEN [status |-> 400, values |-> << >>]
    ELSE Forecast(get_air_quality(lat.num, lng.num, resp), lat.num, lng.num)

\* a request and the response r to it
ForecastExchange(lat, lng, resp, r) ==
    [lat |-> lat, lng |-> lng, resp |-> resp, status |-> r.status,
     values |-> r.values]

ForecastRequest(lat, lng, resp) ==
    /\ pc = "idle"
    /\ token \/ resp.kind = "NoData"
    /\ forecast' = ForecastExchange(lat, lng, resp,
                                    get_forecast_data(lat, lng, resp))
    /\ pc' = "done"
    /\ UNCHANGED << heatVars, token, jsonErrIsRequestException, hashSeed, now,
                    nCalls, last, stored, failRun, failRunStart, attemptsNow,
                    est, prevEst, workers, user_profiles, profileCall,
                    shape >>

\* the client takes the response
ForecastReturn ==
    /\ pc = "done"
    /\ pc' = "idle"
    /\ forecast' = None
    /\ UNCHANGED << heatVars, token, jsonErrIsRequestException, hashSeed, now,
                    nCalls, last, stored, failRun, failRunStart, attemptsNow,
                    est, prevEst, workers, user_profiles, profileCall,
                    shape >>

NextForecast ==
    \/ /\ pc = "idle"
       /\ \E lat \in ForecastLats, lng \in ForecastLngs,
             resp \in RemoteResponses : ForecastRequest(lat, lng, resp)
    \/ ForecastReturn

SpecForecast == InitSample /\ [][NextForecast]_vars

\* C30 (checked under SpecForecast): get_forecast_data answers 400 only when
\* lat or lng is absent from the request; every request that supplies
\* numeric lat and lng, 0 included, is answered with exactly 7 forecast
\* values, each an integer in [10, 200].
C30_Forecast ==
    forecast # None =>
        /\ forecast.status = 400 =>
               (forecast.lat = None \/ forecast.lng = None)
        /\ (forecast.lat # None /\ forecast.lng # None) =>
               /\ forecast.status = 200
               /\ Len(forecast.values) = 7
               /\ \A n \in 1 .. 7 : forecast.values[n] \in 10 .. 200

=============================================================================
